---- MODULE Spec2Model ----
(***************************************************************************)
(* Authentication and authorization of dpxdt/server/auth.py.               *)
(*                                                                         *)
(* The state is the identity store (User, Build and ApiKey rows), the      *)
(* browser's login session, and the record of the last request handled.   *)
(* Every request handler of the module is one action.                      *)
(***************************************************************************)
EXTENDS Integers, FiniteSets, Sequences, TLC

\* ------------------------------------------------------------- universes
MaxBuildId == 2

BuildIds == 1..MaxBuildId
Subjects == {"a", "b"}
Emails == {"e1", "e2"}
KeyIds == {"k1", "k2"}
Secrets == {"s1", "S1"}
Methods == {"GET", "POST", "HEAD"}

\* models.User.GOOGLE_OAUTH2, the provider prefix of a user id
GOOGLE_OAUTH2 == "google_oauth2"

\* The names bound at module level of auth.py: its imports and its functions.
ModuleGlobals ==
    {"functools", "json", "logging", "urllib", "urllib2",
     "abort", "redirect", "render_template", "request", "url_for",
     "current_user", "fresh_login_required", "login_required", "login_user",
     "app", "db", "login", "config", "forms", "models",
     "GOOGLE_OAUTH2_AUTH_URL", "GOOGLE_OAUTH2_TOKEN_URL",
     "GOOGLE_OAUTH2_USERINFO_URL", "GOOGLE_OAUTH2_SCOPES",
     "FETCH_TIMEOUT_SECONDS",
     "load_user", "login_view", "login_auth", "debug_login",
     "superuser_required", "can_user_access_build", "build_access_required",
     "api_key_required", "manage_api_keys", "revoke_api_key"}

\* Reading a global name that is not bound raises NameError.
NameError(name) == name \notin ModuleGlobals

\* ------------------------------------------------------------ python values
\* None, and an int, as the values request.args.get(name, type=int) returns.
NoneVal == [kind |-> "none", val |-> 0]
IntVal(n) == [kind |-> "int", val |-> n]

\* A request parameter as sent: absent, text that is no integer, or digits.
RawMissing == [kind |-> "missing", val |-> 0]
RawText == [kind |-> "text", val |-> 0]
RawParams == {RawMissing, RawText} \cup {[kind |-> "digits", val |-> n] : n \in 0..MaxBuildId}

\* MultiDict.get(name, type=int): None when absent or when int() raises.
get_int(raw) == IF raw.kind = "digits" THEN IntVal(raw.val) ELSE NoneVal

\* Python truth of None / int.
Truthy(v) == v.kind = "int" /\ v.val # 0

\* Python `a or b`.
PyOr(a, b) == IF Truthy(a) THEN a ELSE b

\* ------------------------------------------------------------------ rows
Anonymous == << >>
UserIds == {<<GOOGLE_OAUTH2, s>> : s \in Subjects}

NoUser == [exists |-> FALSE, email_address |-> "", superuser |-> FALSE]
NoBuild == [exists |-> FALSE, public |-> FALSE, owners |-> {}]
NoKey == [exists |-> FALSE, secret |-> "", active |-> FALSE,
          build_id |-> NoneVal, superuser |-> FALSE]

NoAuth == [present |-> FALSE, username |-> "", password |-> ""]
AuthHeaders ==
    {NoAuth} \cup {[present |-> TRUE, username |-> k, password |-> s] :
                      k \in KeyIds, s \in Secrets}

\* ----------------------------------------------------------------- responses
Allowed == "None"              \* can_user_access_build's response None
BadRequest == "400"
Unauthorized == "401"
Forbidden == "403"
NotFound == "404"
InternalError == "500"         \* an uncaught exception in a handler
RequireLogin == "login.unauthorized"
NeedsRefresh == "login.needs_refresh"
HandlerResult == "handler"     \* whatever the wrapped handler returns
Redirect == "redirect"

VARIABLES
    users,      \* models.User rows by id
    builds,     \* models.Build rows by id
    keys,       \* models.ApiKey rows by id
    session,    \* user id stored in the browser's session, or Anonymous
    fresh,      \* the session was established by login_user, not restored
    flow,       \* the login round trip of a request that was sent to login
    revoked,    \* keys that revoke_api_key has deactivated
    last,       \* the last request handled and its outcome
    callbacks,  \* login_auth requests running side by side, by worker
    extra_rows  \* User rows the store holds beyond the first, by user id

vars == <<users, builds, keys, session, fresh, flow, revoked, last,
          callbacks, extra_rows>>


\* ------------------------------------------------------------ the store
\* models.User.query.get, models.Build.query.get, models.ApiKey.query.get:
\* the row with that primary key, or nothing.
UserQueryGet(id) == IF id \in DOMAIN users THEN users[id] ELSE NoUser
BuildQueryGet(id) == IF id \in DOMAIN builds THEN builds[id] ELSE NoBuild
ApiKeyQueryGet(id) == IF id \in DOMAIN keys THEN keys[id] ELSE NoKey

load_user(user_id) == UserQueryGet(user_id)

\* flask.ext.login's current_user: the session's user when load_user finds
\* one, the anonymous user otherwise.
current_user ==
    IF session # Anonymous /\ load_user(session).exists THEN session ELSE Anonymous

is_authenticated(user) == user # Anonymous

\* Mutant: the user id is the provider's subject id without the provider prefix.
format_user_id_bare(subject) == <<"", subject>>

\* '%s:%s' % (models.User.GOOGLE_OAUTH2, result_dict['id'])
format_user_id(subject) == <<GOOGLE_OAUTH2, subject>>

\* ------------------------------------------------- can_user_access_build
Decision(response, build) == [response |-> response, build |-> build]

\* Mutant: the method is tested before ownership, so an owner cannot modify.
can_user_access_build_method_first(args, form, method, user) ==
    LET build_id == PyOr(get_int(args), get_int(form))
        build == BuildQueryGet(build_id.val)
    IN
    IF ~Truthy(build_id) THEN Decision(BadRequest, 0)
    ELSE IF ~build.exists THEN Decision(NotFound, 0)
    ELSE IF method # "GET" THEN Decision(Forbidden, 0)
    ELSE IF is_authenticated(user) /\ user \in build.owners
      THEN Decision(Allowed, build_id.val)
    ELSE IF build.public THEN Decision(Allowed, build_id.val)
    ELSE IF is_authenticated(user) THEN Decision(Forbidden, 0)
    ELSE Decision(RequireLogin, 0)

\* Mutant: a private build sends every non-owner to login, logged in or not.
can_user_access_build_always_login(args, form, method, user) ==
    LET build_id == PyOr(get_int(args), get_int(form))
        build == BuildQueryGet(build_id.val)
    IN
    IF ~Truthy(build_id) THEN Decision(BadRequest, 0)
    ELSE IF ~build.exists THEN Decision(NotFound, 0)
    ELSE IF is_authenticated(user) /\ user \in build.owners
      THEN Decision(Allowed, build_id.val)
    ELSE IF method # "GET" THEN Decision(Forbidden, 0)
    ELSE IF build.public THEN Decision(Allowed, build_id.val)
    ELSE Decision(RequireLogin, 0)

\* Mutant: the public flag is tested before the method.
can_user_access_build_public_first(args, form, method, user) ==
    LET build_id == PyOr(get_int(args), get_int(form))
        build == BuildQueryGet(build_id.val)
    IN
    IF ~Truthy(build_id) THEN Decision(BadRequest, 0)
    ELSE IF ~build.exists THEN Decision(NotFound, 0)
    ELSE IF is_authenticated(user) /\ user \in build.owners
      THEN Decision(Allowed, build_id.val)
    ELSE IF build.public THEN Decision(Allowed, build_id.val)
    ELSE IF method # "GET" THEN Decision(Forbidden, 0)
    ELSE IF is_authenticated(user) THEN Decision(Forbidden, 0)
    ELSE Decision(RequireLogin, 0)

\* Mutant: a user flagged superuser is let through like an owner.
can_user_access_build_superuser(args, form, method, user) ==
    LET build_id == PyOr(get_int(args), get_int(form))
        build == BuildQueryGet(build_id.val)
    IN
    IF ~Truthy(build_id) THEN Decision(BadRequest, 0)
    ELSE IF ~build.exists THEN Decision(NotFound, 0)
    ELSE IF is_authenticated(user)
            /\ (user \in build.owners \/ UserQueryGet(user).superuser)
      THEN Decision(Allowed, build_id.val)
    ELSE IF method # "GET" THEN Decision(Forbidden, 0)
    ELSE IF build.public THEN Decision(Allowed, build_id.val)
    ELSE IF is_authenticated(user) THEN Decision(Forbidden, 0)
    ELSE Decision(RequireLogin, 0)

can_user_access_build(args, form, method, user) ==
    LET build_id == PyOr(get_int(args), get_int(form)) IN
    IF ~Truthy(build_id) THEN Decision(BadRequest, 0)
    ELSE
      LET build == BuildQueryGet(build_id.val) IN
      IF ~build.exists THEN Decision(NotFound, 0)
      ELSE
        LET user_is_owner ==
              IF is_authenticated(user) THEN user \in build.owners ELSE FALSE
        IN
        IF ~user_is_owner THEN
             IF method # "GET" THEN Decision(Forbidden, 0)
             ELSE IF build.public THEN Decision(Allowed, build_id.val)
             ELSE IF is_authenticated(user) THEN Decision(Forbidden, 0)
             ELSE Decision(RequireLogin, 0)
        ELSE Decision(Allowed, build_id.val)

\* ------------------------------------------------- build_access_required
\* What a wrapped request came to: the response, whether the wrapped handler
\* ran, the build it was handed, and can_user_access_build's response.
Outcome(status, invoked, build, decision) ==
    [status |-> status, invoked |-> invoked, build |-> build, decision |-> decision]

\* Mutant: the wrapper calls the handler whatever the response is.
build_access_required_always(args, form, method, user) ==
    LET d == can_user_access_build(args, form, method, user) IN
    Outcome(HandlerResult, TRUE, d.build, d.response)

build_access_required(args, form, method, user) ==
    LET d == can_user_access_build(args, form, method, user) IN
    IF d.response # Allowed
      THEN Outcome(d.response, FALSE, 0, d.response)
      ELSE Outcome(HandlerResult, TRUE, d.build, d.response)

\* fresh_login_required that tests nothing: every caller passes.
fresh_login_required_absent(user, is_fresh) == Allowed

\* flask.ext.login.fresh_login_required
fresh_login_required(user, is_fresh) ==
    IF ~is_authenticated(user) THEN RequireLogin
    ELSE IF ~is_fresh THEN NeedsRefresh
    ELSE Allowed

\* flask.ext.login.login_required, the outer wrapper at line 123.
login_required(user) ==
    IF ~is_authenticated(user) THEN RequireLogin ELSE Allowed

\* Lines 124-127 without the superuser test of line 125: every logged-in
\* caller reaches the handler.
superuser_required_any_user(user) ==
    IF login_required(user) # Allowed
      THEN Outcome(login_required(user), FALSE, 0, "")
      ELSE Outcome(HandlerResult, TRUE, 0, "")

\* Lines 120-128: login_required runs first; the wrapped test aborts with 403
\* unless current_user is authenticated and superuser.
superuser_required(user) ==
    IF login_required(user) # Allowed
      THEN Outcome(login_required(user), FALSE, 0, "")
    ELSE IF ~(is_authenticated(user) /\ UserQueryGet(user).superuser)
      THEN Outcome(Forbidden, FALSE, 0, "")
    ELSE Outcome(HandlerResult, TRUE, 0, "")

\* ------------------------------------------------------ api_key_required
\* Lines 220-250: the checks on the key named by the authorization header.
api_key_checks(auth_header, form) ==
    LET api_key == ApiKeyQueryGet(auth_header.username) IN
    IF ~api_key.exists THEN Outcome(Forbidden, FALSE, 0, "")
    ELSE IF ~api_key.active THEN Outcome(Forbidden, FALSE, 0, "")
    ELSE IF api_key.secret # auth_header.password THEN Outcome(Forbidden, FALSE, 0, "")
    ELSE
      LET build_id == get_int(form) IN
      IF ~api_key.superuser THEN
         IF Truthy(build_id) /\ api_key.build_id = build_id THEN
            IF ~BuildQueryGet(build_id.val).exists
              THEN Outcome(NotFound, FALSE, 0, "")
              ELSE Outcome(HandlerResult, TRUE, 0, "")
         ELSE Outcome(Forbidden, FALSE, 0, "")
      ELSE Outcome(HandlerResult, TRUE, 0, "")

\* Line 214 reads the global `auth`, which the module never binds (the header
\* was stored in `auth_header`): NameError, the request ends in a 500.
api_key_required(auth_header, form) ==
    IF NameError("auth") THEN Outcome(InternalError, FALSE, 0, "")
    ELSE api_key_checks(auth_header, form)


\* -------------------------------------------------------- manage_api_keys
\* flask_wtf's Form.validate_on_submit: a submitted (POST) form that validates.
validate_on_submit(method, valid) == method = "POST" /\ valid

\* Lines 258-293, the handler body: "created" (line 271), "rendered" (line
\* 289), or the NameError of line 264, where the module never binds `utils`.
manage_api_keys_body(method, valid) ==
    IF validate_on_submit(method, valid)
      THEN IF NameError("utils") THEN "NameError" ELSE "created"
      ELSE "rendered"

\* fresh_login_required, then build_access_required('build_id'), then the body.
manage_api_keys(args, form, method, valid, user, is_fresh) ==
    LET guard == fresh_login_required(user, is_fresh)
        access == build_access_required(args, form, method, user)
        body == manage_api_keys_body(method, valid)
    IN
    IF guard # Allowed THEN Outcome(guard, FALSE, 0, "")
    ELSE IF ~access.invoked THEN access
    ELSE IF body = "NameError"
      THEN Outcome(InternalError, TRUE, access.build, access.decision)
    ELSE IF body = "created"
      THEN Outcome(Redirect, TRUE, access.build, access.decision)
    ELSE Outcome("rendered", TRUE, access.build, access.decision)

\* The row lines 262-267 would add: populate_obj copies the form's build_id.
new_api_key(form, secret) ==
    [exists |-> TRUE, secret |-> secret, active |-> TRUE,
     build_id |-> get_int(form), superuser |-> FALSE]

\* --------------------------------------------------------- revoke_api_key
\* Mutant: the key's build is not compared with the build of the request.
revoke_api_key_body_any_build(build, valid, key_id) ==
    LET api_key == ApiKeyQueryGet(key_id) IN
    IF validate_on_submit("POST", valid) THEN
         IF ~api_key.exists THEN "AttributeError" ELSE "revoked"
    ELSE "redirect"

\* Lines 299-313, the handler body, given the build the guard resolved.
revoke_api_key_body(build, valid, key_id) ==
    LET api_key == ApiKeyQueryGet(key_id) IN
    IF validate_on_submit("POST", valid) THEN
         IF ~api_key.exists THEN "AttributeError"
         ELSE IF api_key.build_id # IntVal(build) THEN "forbidden"
         ELSE "revoked"
    ELSE "redirect"

revoke_api_key(args, form, valid, key_id, user, is_fresh) ==
    LET guard == fresh_login_required(user, is_fresh)
        access == build_access_required(args, form, "POST", user)
        body == revoke_api_key_body(access.build, valid, key_id)
    IN
    IF guard # Allowed THEN Outcome(guard, FALSE, 0, "")
    ELSE IF ~access.invoked THEN access
    ELSE IF body = "AttributeError"
      THEN Outcome(InternalError, TRUE, access.build, access.decision)
    ELSE IF body = "forbidden"
      THEN Outcome(Forbidden, TRUE, access.build, access.decision)
    ELSE Outcome(Redirect, TRUE, access.build, access.decision)

\* Whether the request reaches lines 309-311, which deactivate the key.
revoke_commits(args, form, valid, key_id, user, is_fresh) ==
    LET access == build_access_required(args, form, "POST", user) IN
    /\ fresh_login_required(user, is_fresh) = Allowed
    /\ access.invoked
    /\ revoke_api_key_body(access.build, valid, key_id) = "revoked"


\* ------------------------------------------------------------- the record
\* The round trip through login of a GET without a body: the query string
\* that login.unauthorized() hands on as `next`, the subject that logged in,
\* and the response to the request when it is sent again.
NoFlow == [stage |-> "none", args |-> RawMissing, subject |-> "", result |-> ""]

Handled(op, method, args, form, valid, key_id, auth_header, user, is_fresh, out) ==
    [op |-> op, method |-> method, args |-> args, form |-> form, valid |-> valid,
     key_id |-> key_id, auth |-> auth_header, user |-> user, user_fresh |-> is_fresh,
     status |-> out.status, invoked |-> out.invoked, build |-> out.build,
     decision |-> out.decision, email |-> ""]

NoRequest ==
    Handled("none", "", RawMissing, RawMissing, FALSE, "", NoAuth, Anonymous, FALSE,
            Outcome("", FALSE, 0, ""))

\* ---------------------------------------------------------------- actions
\* A request to a handler wrapped with @build_access_required (parameter 'id').
BuildAccess(method, args, form) ==
    LET user == current_user
        out == build_access_required(args, form, method, user)
    IN
    /\ last = NoRequest
    /\ last' = Handled("build_access_required", method, args, form, FALSE, "",
                       NoAuth, user, fresh, out)
    /\ flow' = IF /\ flow.stage = "established" /\ method = "GET"
                  /\ args = flow.args /\ form = RawMissing
                 THEN [flow EXCEPT !.stage = "replayed", !.result = out.status]
               ELSE IF out.status = RequireLogin /\ form = RawMissing
                 THEN [NoFlow EXCEPT !.stage = "redirected", !.args = args]
               ELSE NoFlow
    /\ UNCHANGED <<users, builds, keys, session, fresh, revoked, callbacks, extra_rows>>

\* The User row as login_auth adds it: the id and the reported email address,
\* nothing else.
NewUser(email) == [exists |-> TRUE, email_address |-> email, superuser |-> FALSE]

\* Lines 98-104 with the test of line 99 dropped: the row is written with the
\* reported address at every login.
get_or_create_user_overwrite(found, user_id, email) ==
    [id \in DOMAIN users \cup {user_id} |->
       IF id = user_id THEN NewUser(email) ELSE users[id]]

\* Lines 98-104: the users table after the callback, `found` being what the
\* lookup of line 98 returned. A user that was found is written nowhere.
get_or_create_user(found, user_id, email) ==
    IF found
      THEN users
      ELSE [id \in DOMAIN users \cup {user_id} |->
              IF id = user_id THEN NewUser(email) ELSE users[id]]

\* The provider's callback, lines 69-108. `upstream` is whether both fetches
\* from the provider succeed; urlopen raises otherwise.
LoginAuth(subject, email, upstream) ==
    LET user_id == format_user_id(subject)
        user == UserQueryGet(user_id)
        out == IF upstream THEN Outcome(Redirect, FALSE, 0, "")
                           ELSE Outcome(InternalError, FALSE, 0, "")
    IN
    /\ last = NoRequest
    /\ users' = IF upstream THEN get_or_create_user(user.exists, user_id, email)
                            ELSE users
    /\ session' = IF upstream THEN user_id ELSE session
    /\ fresh' = IF upstream THEN TRUE ELSE fresh
    /\ last' = [Handled("login_auth", "GET", RawMissing, RawMissing, FALSE, subject,
                        NoAuth, current_user, fresh, out) EXCEPT !.email = email]
    /\ flow' = IF upstream /\ flow.stage = "redirected"
                 THEN [flow EXCEPT !.stage = "established", !.subject = subject]
                 ELSE NoFlow
    /\ UNCHANGED <<builds, keys, revoked, callbacks, extra_rows>>

\* A request to a handler wrapped with @api_key_required.
ApiRequest(auth_header, form) ==
    LET out == api_key_required(auth_header, form) IN
    /\ last = NoRequest
    /\ last' = Handled("api_key_required", "POST", RawMissing, form, FALSE, "",
                       auth_header, Anonymous, FALSE, out)
    /\ flow' = NoFlow
    /\ UNCHANGED <<users, builds, keys, session, fresh, revoked, callbacks, extra_rows>>

\* GET or POST /api_keys.
ManageApiKeys(method, args, form, valid) ==
    LET user == current_user
        out == manage_api_keys(args, form, method, valid, user, fresh)
        api_key_id == CHOOSE k \in KeyIds : ~keys[k].exists
        secret == CHOOSE x \in Secrets : TRUE
    IN
    /\ last = NoRequest
    /\ keys' = IF out.invoked /\ out.status = Redirect
                 THEN [keys EXCEPT ![api_key_id] = new_api_key(form, secret)]
                 ELSE keys
    /\ last' = Handled("manage_api_keys", method, args, form, valid, "",
                       NoAuth, user, fresh, out)
    /\ flow' = NoFlow
    /\ UNCHANGED <<users, builds, session, fresh, revoked, callbacks, extra_rows>>

\* POST /api_keys.revoke.
RevokeApiKey(args, form, valid, key_id) ==
    LET user == current_user
        out == revoke_api_key(args, form, valid, key_id, user, fresh)
        commits == revoke_commits(args, form, valid, key_id, user, fresh)
    IN
    /\ last = NoRequest
    /\ keys' = IF commits THEN [keys EXCEPT ![key_id].active = FALSE] ELSE keys
    /\ revoked' = IF commits THEN revoked \cup {key_id} ELSE revoked
    /\ last' = Handled("revoke_api_key", "POST", args, form, valid, key_id,
                       NoAuth, user, fresh, out)
    /\ flow' = NoFlow
    /\ UNCHANGED <<users, builds, session, fresh, callbacks, extra_rows>>

\* A request to a handler wrapped with @superuser_required.
SuperuserRequest ==
    LET user == current_user
        out == superuser_required(user)
    IN
    /\ last = NoRequest
    /\ last' = Handled("superuser_required", "GET", RawMissing, RawMissing, FALSE,
                       "", NoAuth, user, fresh, out)
    /\ flow' = NoFlow
    /\ UNCHANGED <<users, builds, keys, session, fresh, revoked, callbacks, extra_rows>>

\* flask.ext.login's session protection: a session that is restored rather
\* than established by login_user is no longer fresh.
SessionProtection ==
    /\ last = NoRequest
    /\ session # Anonymous
    /\ fresh
    /\ fresh' = FALSE
    /\ UNCHANGED <<users, builds, keys, session, flow, revoked, last, callbacks, extra_rows>>

\* The response goes back to the client: the request is over.
Deliver ==
    /\ last # NoRequest
    /\ last' = NoRequest
    /\ flow' = IF flow.stage = "replayed" THEN NoFlow ELSE flow
    /\ UNCHANGED <<users, builds, keys, session, fresh, revoked, callbacks, extra_rows>>

Next ==
    \/ \E method \in Methods, args \in RawParams, form \in RawParams :
          BuildAccess(method, args, form)
    \/ \E subject \in Subjects, email \in Emails, upstream \in BOOLEAN :
          LoginAuth(subject, email, upstream)
    \/ \E auth_header \in AuthHeaders, form \in RawParams :
          ApiRequest(auth_header, form)
    \/ \E method \in {"GET", "POST"}, args \in RawParams, form \in RawParams,
          valid \in BOOLEAN :
          ManageApiKeys(method, args, form, valid)
    \/ \E args \in {RawMissing}, form \in RawParams, valid \in BOOLEAN,
          key_id \in KeyIds :
          RevokeApiKey(args, form, valid, key_id)
    \/ SuperuserRequest
    \/ SessionProtection
    \/ Deliver

\* ------------------------------------------------------------ initial states
UserRow(email) == [exists |-> TRUE, email_address |-> email, superuser |-> FALSE]

BuildRows(owners) ==
    {NoBuild} \cup {[exists |-> TRUE, public |-> p, owners |-> o] :
                      p \in BOOLEAN, o \in SUBSET owners}

KeyRows ==
    {NoKey} \cup {[exists |-> TRUE, secret |-> s, active |-> a, build_id |-> b,
                   superuser |-> su] :
                    s \in Secrets, a \in BOOLEAN, su \in BOOLEAN,
                    b \in {NoneVal} \cup {IntVal(n) : n \in BuildIds}}

ExistingUsers(u) == {id \in DOMAIN u : u[id].exists}

\* The workers that handle requests side by side.
Workers == {"w1", "w2"}

\* A login_auth request in a worker: not started ("idle"), past the lookup of
\* line 98 ("read", with whether the user was found), or over ("done", with
\* the response).
IdleCallback == [pc |-> "idle", subject |-> "", email |-> "", found |-> FALSE,
                 status |-> ""]

InitSession ==
    /\ callbacks = [w \in Workers |-> IdleCallback]
    /\ extra_rows = [id \in UserIds |-> 0]
    /\ session = Anonymous
    /\ fresh = FALSE
    /\ flow = NoFlow
    /\ revoked = {}
    /\ last = NoRequest

\* Any builds, owned by any of the users there are; one key of build 1.
Init ==
    /\ users \in {[id \in UserIds |->
                     IF id[2] \in present THEN UserRow("e1") ELSE NoUser] :
                  present \in {{"a"}, {"a", "b"}}}
    /\ builds \in [BuildIds -> BuildRows(ExistingUsers(users))]
    /\ keys = [k \in KeyIds |->
                 IF k = "k1"
                   THEN [exists |-> TRUE, secret |-> "s1", active |-> TRUE,
                         build_id |-> IntVal(1), superuser |-> FALSE]
                   ELSE NoKey]
    /\ InitSession

Spec == Init /\ [][Next]_vars

\* Any key k1, and k2 absent or a key of build 1; build 1 private and owned by user a, the other builds absent or
\* public without owners.
InitKeys ==
    /\ users = [id \in UserIds |-> UserRow("e1")]
    /\ builds \in {[b \in BuildIds |->
                      IF b = 1
                        THEN [exists |-> TRUE, public |-> FALSE,
                              owners |-> {<<GOOGLE_OAUTH2, "a">>}]
                      ELSE IF b \in there
                        THEN [exists |-> TRUE, public |-> TRUE, owners |-> {}]
                      ELSE NoBuild] :
                   there \in SUBSET (BuildIds \ {1})}
    /\ keys \in {[k \in KeyIds |-> IF k = "k1" THEN row ELSE other] :
                  row \in KeyRows,
                  other \in {NoKey, [exists |-> TRUE, secret |-> "S1", active |-> TRUE,
                                     build_id |-> IntVal(1), superuser |-> FALSE]}}
    /\ InitSession

SpecKeys == InitKeys /\ [][Next]_vars

\* User a, and user b who is or is not superuser; any builds, owned by a or
\* by nobody; one key of build 1.
InitSuper ==
    /\ users \in {[id \in UserIds |->
                     IF id[2] = "b" THEN [UserRow("e1") EXCEPT !.superuser = su]
                                    ELSE UserRow("e1")] :
                  su \in BOOLEAN}
    /\ builds \in [BuildIds -> BuildRows({<<GOOGLE_OAUTH2, "a">>})]
    /\ keys = [k \in KeyIds |->
                 IF k = "k1"
                   THEN [exists |-> TRUE, secret |-> "s1", active |-> TRUE,
                         build_id |-> IntVal(1), superuser |-> FALSE]
                   ELSE NoKey]
    /\ InitSession

SpecSuper == InitSuper /\ [][Next]_vars


\* ------------------------------------------------------------- properties
\* The build a request names: the query string's id when it is a non-zero
\* integer, the form's otherwise; 0 when neither is.
NamedBuildId(r) ==
    IF r.args.kind = "digits" /\ r.args.val # 0 THEN r.args.val
    ELSE IF r.form.kind = "digits" THEN r.form.val
    ELSE 0

NamesExistingBuild(r) == NamedBuildId(r) \in BuildIds /\ builds[NamedBuildId(r)].exists

NamedBuild(r) == builds[NamedBuildId(r)]

IsAccessCheck == last.op = "build_access_required"

CallerOwns(r) == r.user # Anonymous /\ r.user \in NamedBuild(r).owners

Granted(r) == r.decision = Allowed /\ r.invoked /\ r.build = NamedBuildId(r)

Denied(r, response) == r.decision = response /\ r.status = response /\ ~r.invoked

\* C1: an authenticated owner of the existing build a request names is granted
\* access (the build, no error response), for every method and whether the
\* build is public or not.
C1_OwnerGranted ==
    (IsAccessCheck /\ NamesExistingBuild(last) /\ CallerOwns(last)) => Granted(last)

C1_Witness ==
    /\ IsAccessCheck /\ NamesExistingBuild(last) /\ CallerOwns(last)
    /\ last.method = "POST" /\ ~NamedBuild(last).public
    /\ Granted(last)

\* C2: an authenticated caller who does not own the existing private build is
\* answered 403, for GET and for every other method: never the login
\* redirect, never access.
C2_NonOwnerPrivateForbidden ==
    (/\ IsAccessCheck /\ NamesExistingBuild(last)
     /\ last.user # Anonymous /\ ~CallerOwns(last)
     /\ ~NamedBuild(last).public)
    => Denied(last, Forbidden)

C2_Witness ==
    /\ IsAccessCheck /\ NamesExistingBuild(last)
    /\ last.user # Anonymous /\ ~CallerOwns(last)
    /\ ~NamedBuild(last).public
    /\ last.method = "GET"
    /\ Denied(last, Forbidden)

\* C3: a caller who is no owner (anonymous or not) of an existing public build
\* is granted access on GET and answered 403 on every other method: the
\* method decides before the public flag does.
C3_PublicReadOnly ==
    (IsAccessCheck /\ NamesExistingBuild(last) /\ ~CallerOwns(last)
     /\ NamedBuild(last).public)
    => IF last.method = "GET" THEN Granted(last) ELSE Denied(last, Forbidden)

C3_Witness ==
    /\ IsAccessCheck /\ NamesExistingBuild(last) /\ ~CallerOwns(last)
    /\ NamedBuild(last).public
    /\ last.user = Anonymous /\ last.method = "POST"
    /\ Denied(last, Forbidden)

\* C4: an anonymous GET of an existing private build is answered with the
\* login redirect; once login_auth has established the session of a subject
\* whose user owns the build, the same request sent again is granted access.
C4_LoginThenGranted ==
    /\ (/\ IsAccessCheck /\ NamesExistingBuild(last) /\ last.user = Anonymous
        /\ last.method = "GET" /\ ~NamedBuild(last).public)
       => Denied(last, RequireLogin)
    /\ (/\ flow.stage = "replayed" /\ IsAccessCheck
        /\ <<GOOGLE_OAUTH2, flow.subject>> \in NamedBuild(last).owners)
       => (last.args = flow.args /\ Granted(last))

C4_Witness ==
    /\ flow.stage = "replayed" /\ IsAccessCheck
    /\ last.args = flow.args /\ last.method = "GET"
    /\ ~NamedBuild(last).public
    /\ last.user = <<GOOGLE_OAUTH2, flow.subject>>
    /\ last.user \in NamedBuild(last).owners
    /\ Granted(last)

\* C5: the wrapped handler runs only when can_user_access_build answered no
\* error, and then it is handed the build the request names; on 400, 404, 403
\* and the login redirect the wrapper answers with that response and the
\* handler does not run.
C5_HandlerOnlyOnAllow ==
    IsAccessCheck =>
      /\ last.invoked <=> last.decision = Allowed
      /\ last.invoked =>
           /\ NamesExistingBuild(last)
           /\ last.build = NamedBuildId(last)
           /\ last.status = HandlerResult
      /\ ~last.invoked =>
           /\ last.status = last.decision
           /\ last.status \in {BadRequest, NotFound, Forbidden, RequireLogin}

C5_Witness ==
    /\ IsAccessCheck /\ last.invoked
    /\ last.decision = Allowed
    /\ NamesExistingBuild(last) /\ last.build = NamedBuildId(last)


IsApiRequest == last.op = "api_key_required"

PresentedKey == keys[last.auth.username]

\* The request's credentials name an active key and carry its exact secret.
CredentialsPass ==
    /\ last.auth.present
    /\ PresentedKey.exists /\ PresentedKey.active
    /\ PresentedKey.secret = last.auth.password

\* The form's build_id: the integer sent, 0 when absent or no integer.
FormBuildId == IF last.form.kind = "digits" THEN last.form.val ELSE 0

\* The form's build_id is the key's build_id.
ScopeMatches ==
    /\ FormBuildId # 0
    /\ PresentedKey.build_id.kind = "int"
    /\ PresentedKey.build_id.val = FormBuildId

\* C6: a request without an authorization header is answered 401 (with the
\* WWW-Authenticate challenge) and the wrapped handler does not run.
C6_MissingHeaderUnauthorized ==
    (IsApiRequest /\ ~last.auth.present)
    => (last.status = Unauthorized /\ ~last.invoked)

\* C7: credentials that name no key, a key that is not active, or an active
\* key with another secret are each answered 403, the same response in the
\* three cases, and the wrapped handler does not run.
C7_BadCredentialsForbidden ==
    (IsApiRequest /\ last.auth.present /\ ~CredentialsPass)
    => (last.status = Forbidden /\ ~last.invoked)

\* C8: every request to an api_key_required handler ends in exactly one of
\* Unauthorized, Forbidden, or the handler being run, and in nothing else.
C8_ThreeOutcomes ==
    IsApiRequest =>
      /\ last.status \in {Unauthorized, Forbidden, HandlerResult}
      /\ last.invoked <=> last.status = HandlerResult

\* C9: after revoke_api_key has deactivated a key, every request that presents
\* the key is answered 403, whatever secret and build_id it carries, and the
\* key stays inactive.
C9_RevokedForbidden ==
    /\ \A k \in revoked : ~keys[k].active
    /\ (IsApiRequest /\ last.auth.present /\ last.auth.username \in revoked)
       => (last.status = Forbidden /\ ~last.invoked)

\* C10: with a key that is not superuser and whose credentials pass, the
\* handler runs only if the form's build_id is the key's and that build
\* exists; another or no build_id is answered 403; the key's build_id naming
\* no build is answered 404.
C10_ScopedKey ==
    (IsApiRequest /\ CredentialsPass /\ ~PresentedKey.superuser) =>
      /\ last.invoked => (ScopeMatches /\ BuildQueryGet(FormBuildId).exists)
      /\ ~ScopeMatches => (last.status = Forbidden /\ ~last.invoked)
      /\ (ScopeMatches /\ ~BuildQueryGet(FormBuildId).exists)
           => (last.status = NotFound /\ ~last.invoked)

\* C11: an active superuser key presented with its secret runs the handler
\* for every build_id of the request: the key's, another, none, or one that
\* names no build.
C11_SuperuserKeyAdmitted ==
    (IsApiRequest /\ CredentialsPass /\ PresentedKey.superuser)
    => (last.invoked /\ last.status = HandlerResult)

\* C12: a key without a build_id carries no build restriction: active and
\* presented with its secret, it is not turned away for the build_id the
\* request carries, so the handler runs.
C12_UnscopedKeyAdmitted ==
    (IsApiRequest /\ CredentialsPass /\ PresentedKey.build_id = NoneVal)
    => (last.invoked /\ last.status = HandlerResult)

CallerIsSuperuser(r) == r.user # Anonymous /\ users[r.user].superuser

\* C13 as claimed: an authenticated superuser who owns nothing is granted
\* access to an existing build, for every method, public or private.
C13_SuperuserGranted ==
    (IsAccessCheck /\ NamesExistingBuild(last) /\ CallerIsSuperuser(last)
     /\ ~CallerOwns(last))
    => Granted(last)

\* C13, amended: can_user_access_build does not look at the superuser flag;
\* a superuser who is no owner is granted a GET of a public build and
\* answered 403 in every other case.
C13_SuperuserAsNonOwner ==
    (IsAccessCheck /\ NamesExistingBuild(last) /\ CallerIsSuperuser(last)
     /\ ~CallerOwns(last))
    => IF last.method = "GET" /\ NamedBuild(last).public
         THEN Granted(last)
         ELSE Denied(last, Forbidden)

C13_Witness ==
    /\ IsAccessCheck /\ NamesExistingBuild(last) /\ CallerIsSuperuser(last)
    /\ ~CallerOwns(last)
    /\ last.method = "POST" /\ ~NamedBuild(last).public
    /\ Denied(last, Forbidden)

\* A step that handles a request to revoke_api_key.
RevokeStep == last = NoRequest /\ last'.op = "revoke_api_key"

\* C14: revoke_api_key changes a key only when the key's build_id is the id
\* of the build the guard resolved, which the caller owns, and then it only
\* clears that key's active flag; asked to revoke a key of another build it
\* answers 403 and leaves every key as it was.
C14_RevokeOnlyOwnBuildKey ==
    [][RevokeStep =>
         LET k == last'.key_id
             b == last'.build
         IN
         /\ keys' # keys =>
              /\ last'.invoked
              /\ last'.user \in builds[b].owners
              /\ keys[k].exists /\ keys[k].build_id = IntVal(b)
              /\ keys' = [keys EXCEPT ![k].active = FALSE]
         /\ (last'.invoked /\ last'.valid /\ keys[k].exists
             /\ keys[k].build_id # IntVal(b))
            => (last'.status = Forbidden /\ keys' = keys)]_vars

C14_Witness ==
    /\ last.op = "revoke_api_key" /\ last.invoked /\ last.valid
    /\ keys[last.key_id].exists /\ keys[last.key_id].active
    /\ keys[last.key_id].build_id.kind = "int"
    /\ keys[last.key_id].build_id # IntVal(last.build)
    /\ last.user \in builds[last.build].owners
    /\ last.status = Forbidden

\* ---------------------------------------------------------------------------
\* Logging in twice.

\* A step in which login_auth ran to its redirect.
LoginStep ==
    /\ last = NoRequest
    /\ last'.op = "login_auth"
    /\ last'.status = Redirect

\* The id login_auth gives the identity a request was about.
LoginId(r) == <<GOOGLE_OAUTH2, r.key_id>>

\* C15: every completed callback logs in the id made of the provider and the
\* subject, so a second callback for an identity logs in the id of the first;
\* the users table keeps one row under that id; and a callback for an identity
\* whose row exists leaves the table as it was, the address stored at the
\* first login included, whatever address the second one reports. A callback
\* for an identity without a row stores the reported address and touches no
\* other row.
C15_RepeatedLoginKeepsRecord ==
    [][LoginStep =>
         LET id == LoginId(last') IN
         /\ session' = id
         /\ DOMAIN users' = UserIds
         /\ users'[id].exists
         /\ extra_rows'[id] = 0
         /\ users[id].exists => users' = users
         /\ ~users[id].exists =>
              users' = [users EXCEPT ![id] = [exists |-> TRUE,
                                              email_address |-> last'.email,
                                              superuser |-> FALSE]]]_vars

\* Identity "b" has logged in a second time, reporting "e1", and its row still
\* holds "e2": every row of the initial table holds "e1", so the row was
\* written by a first login that reported "e2".
C15_Witness ==
    /\ last.op = "login_auth"
    /\ last.status = Redirect
    /\ last.key_id = "b"
    /\ last.email = "e1"
    /\ session = LoginId(last)
    /\ users[LoginId(last)].exists
    /\ users[LoginId(last)].email_address = "e2"

\* ---------------------------------------------------------------------------
\* superuser_required.

IsSuperuserRequest == last.op = "superuser_required"

\* C17: the handler behind superuser_required runs exactly for a logged-in
\* caller whose user row is superuser; an anonymous caller gets the login
\* guard's redirect, not 403; a logged-in caller who is not superuser gets 403.
C17_SuperuserOnly ==
    IsSuperuserRequest =>
        /\ last.invoked <=> (last.user # Anonymous /\ CallerIsSuperuser(last))
        /\ last.invoked => last.status = HandlerResult
        /\ last.user = Anonymous => last.status = RequireLogin
        /\ (last.user # Anonymous /\ ~CallerIsSuperuser(last)) =>
               last.status = Forbidden

\* A logged-in caller who is not superuser has been answered 403 while another
\* user of the table is superuser.
C17_Witness ==
    /\ IsSuperuserRequest
    /\ last.user # Anonymous
    /\ ~CallerIsSuperuser(last)
    /\ last.status = Forbidden
    /\ ~last.invoked
    /\ \E id \in UserIds : users[id].superuser

\* ---------------------------------------------------------------------------
\* Fresh sessions.

\* A step in which /api_keys or /api_keys.revoke handled a request.
KeyManagementStep ==
    /\ last = NoRequest
    /\ last'.op \in {"manage_api_keys", "revoke_api_key"}

\* C18: a request to manage_api_keys or revoke_api_key from a caller without
\* a session, or with a session that is not fresh, never reaches the handler
\* and leaves every key as it was: none created, no active flag changed. The
\* caller gets the login redirect or the refresh answer.
C18_FreshSessionOnly ==
    [][(KeyManagementStep /\ (last'.user = Anonymous \/ ~last'.user_fresh)) =>
         /\ keys' = keys
         /\ ~last'.invoked
         /\ last'.status = IF last'.user = Anonymous THEN RequireLogin
                                                     ELSE NeedsRefresh]_vars

\* An owner of build 1 whose session is not fresh has asked, with a valid
\* form, to revoke an active key of build 1, and was told to log in again.
C18_Witness ==
    /\ last.op = "revoke_api_key"
    /\ last.user # Anonymous
    /\ ~last.user_fresh
    /\ last.valid
    /\ last.form = [kind |-> "digits", val |-> 1]
    /\ builds[1].exists
    /\ last.user \in builds[1].owners
    /\ keys[last.key_id].exists
    /\ keys[last.key_id].active
    /\ keys[last.key_id].build_id = IntVal(1)
    /\ last.status = NeedsRefresh
    /\ ~last.invoked

\* ---------------------------------------------------------------------------
\* Keys created by manage_api_keys.

\* A step in which manage_api_keys handled a POST whose form validates, past
\* both guards.
CreateStep ==
    /\ last = NoRequest
    /\ last'.op = "manage_api_keys"
    /\ last'.method = "POST"
    /\ last'.valid
    /\ last'.invoked

KeysListed == last.op = "manage_api_keys" /\ last.status = "rendered"

\* C20: the keys of a build are listed only for a caller who is one of the
\* build's owners, public builds included.
C20_ListingOnlyForOwners ==
    KeysListed => last.user \in builds[last.build].owners

\* ---------------------------------------------------------------------------
\* login_auth in two workers at once: the lookup of line 98 and the commit of
\* line 104 are separate steps of each request, and steps of the two requests
\* interleave.

\* The store's INSERT of a User row without a key constraint: the row goes in
\* whether or not a row with that id is there.
InsertUser_unconstrained(user_id) == "inserted"

\* The store's INSERT of a User row: User.id identifies the row, and the
\* store refuses a second row with an id it holds (IntegrityError).
InsertUser(user_id) ==
    IF UserQueryGet(user_id).exists THEN "IntegrityError" ELSE "inserted"

\* Lines 69-98: the fetches from the provider, then the lookup of the user.
LoginAuthLookup(w, subject, email) ==
    /\ callbacks[w].pc = "idle"
    /\ callbacks' = [callbacks EXCEPT ![w] =
                       [pc |-> "read", subject |-> subject, email |-> email,
                        found |-> UserQueryGet(format_user_id(subject)).exists,
                        status |-> ""]]
    /\ UNCHANGED <<users, builds, keys, session, fresh, flow, revoked, last,
                   extra_rows>>

\* Lines 99-108: a request that found no user adds the row and commits; the
\* commit raises when the store refuses the row, and the request ends in a
\* 500 before login_user. Otherwise login_user and the redirect.
LoginAuthCommit(w) ==
    LET cb == callbacks[w]
        user_id == format_user_id(cb.subject)
        inserted == IF cb.found THEN "found" ELSE InsertUser(user_id)
        duplicate == inserted = "inserted" /\ UserQueryGet(user_id).exists
    IN
    /\ cb.pc = "read"
    /\ users' = IF inserted = "inserted" /\ ~duplicate
                  THEN get_or_create_user(FALSE, user_id, cb.email)
                  ELSE users
    /\ extra_rows' = IF duplicate
                       THEN [extra_rows EXCEPT ![user_id] = @ + 1]
                       ELSE extra_rows
    /\ session' = IF inserted = "IntegrityError" THEN session ELSE user_id
    /\ fresh' = IF inserted = "IntegrityError" THEN fresh ELSE TRUE
    /\ callbacks' = [callbacks EXCEPT
                       ![w].pc = "done",
                       ![w].status = IF inserted = "IntegrityError"
                                       THEN InternalError ELSE Redirect]
    /\ UNCHANGED <<builds, keys, flow, revoked, last>>

\* The response of a finished callback goes back; the worker is free again.
CallbackReturn(w) ==
    /\ callbacks[w].pc = "done"
    /\ callbacks' = [callbacks EXCEPT ![w] = IdleCallback]
    /\ UNCHANGED <<users, builds, keys, session, fresh, flow, revoked, last,
                   extra_rows>>

NextConcurrent ==
    \/ \E w \in Workers, subject \in Subjects, email \in Emails :
          LoginAuthLookup(w, subject, email)
    \/ \E w \in Workers : LoginAuthCommit(w)
    \/ \E w \in Workers : CallbackReturn(w)

\* No user has logged in yet, or only "a" has.
InitConcurrent ==
    /\ users \in {[id \in UserIds |->
                     IF id[2] \in present THEN UserRow("e1") ELSE NoUser] :
                  present \in {{}, {"a"}}}
    /\ builds = [b \in BuildIds |-> NoBuild]
    /\ keys = [k \in KeyIds |-> NoKey]
    /\ InitSession

SpecConcurrent == InitConcurrent /\ [][NextConcurrent]_vars

\* The number of User rows the store holds under an id.
RowCount(id) == (IF users[id].exists THEN 1 ELSE 0) + extra_rows[id]

\* C16: whatever the interleaving of two login callbacks, the store holds at
\* most one User row under each id; in particular when both callbacks are
\* first logins of one identity that read the user as absent before either
\* commits.
C16_NoDuplicateUserRows == \A id \in UserIds : RowCount(id) <= 1

\* Both callbacks were for the identity "b", both read it as absent, both
\* have committed: one row is there, one callback was redirected and the
\* other got the 500 of the refused insert.
C16_Witness ==
    /\ \A w \in Workers :
          /\ callbacks[w].pc = "done"
          /\ callbacks[w].subject = "b"
          /\ ~callbacks[w].found
    /\ RowCount(format_user_id("b")) = 1
    /\ \E w \in Workers : callbacks[w].status = Redirect
    /\ \E w \in Workers : callbacks[w].status = InternalError

====
